---- MODULE Spec2Model ----
(***************************************************************************)
(* A model of paper_loom's document reconstruction and orchestration code: *)
(*   ContentSorter      backend/app/modules/ocr/content_sorter.py          *)
(*   MarkdownGenerator  backend/app/modules/ocr/markdown_generator.py      *)
(*   OCRPipeline        backend/app/modules/ocr/ocr_pipeline.py            *)
(* Each component has its own specification over the shared variables; the *)
(* variables of the other components stay at their initial values.         *)
(***************************************************************************)
EXTENDS Integers, Sequences, FiniteSets, Bags, TLC

VARIABLES
    y_tolerance,      \* ContentSorter.y_tolerance
    elements,         \* argument of sort_reading_order
    sorted_by_y,      \* local of sort_reading_order at return
    lines,            \* local of sort_reading_order at return (_group_by_lines result)
    sorted_elements,  \* return value of sort_reading_order
    sort_pc,          \* "ready": argument chosen, "sorted": the call has returned
    rounds,           \* how many times the output was passed back in as input
    text_blocks,      \* argument of merge_text_blocks
    merged,           \* return value of merge_text_blocks
    merge_pc,         \* "ready" / "merged"
    content_list,     \* argument of _extract_stats: the parsed manifest
    images_dir,       \* <output_dir>/images: whether it exists and the files under it
    markdown_content, \* argument of _extract_stats: the rendered document
    stats,            \* return value of _extract_stats
    pass_stats,       \* the stats dict when created and after each of the four passes
    stats_pc,         \* "ready" / "done"
    table_counter,    \* MarkdownGenerator.table_counter
    figure_counter,   \* MarkdownGenerator.figure_counter
    formula_counter,  \* MarkdownGenerator.formula_counter
    page_images,      \* how many page images the caller holds (argument of generate)
    image_files,      \* the files of MarkdownGenerator.images_dir: name -> what was cropped
    output_md,        \* <output_dir>/output.md as generate wrote it
    gen_elements,     \* argument sorted_elements of the last generate() call
    gen_saved,        \* names given to _save_region_image during the last call, in order
    gen_md,           \* md_lines of the last call that returned
    gen_pc,           \* "idle", "returned" or "raised": how the last call ended
    gen_calls,        \* generate() calls made on the instance
    probe,            \* how "mineru --version" ended when the OCRPipeline was constructed
    constructed,      \* OCRPipeline.__init__ returned an instance
    mineru_available, \* OCRPipeline.mineru_available
    pipe_pc,          \* "idle", "mineru" (process awaits _run_mineru_async), "returned", "raised"
    temp_exists,      \* <output_dir>/mineru_temp exists
    temp_mkdirs,      \* how often process() created <output_dir>/mineru_temp
    final_md,         \* <output_dir>/output.md
    final_images,     \* <output_dir>/images
    result,           \* the dict the last process() call returned
    error,            \* the exception the last process() call raised
    mineru_runs,      \* _run_mineru_async calls
    fallback_calls,   \* _use_fallback calls
    process_calls,    \* process() calls made on the instance
    probe_runs,       \* how often _check_mineru_available ran
    libraries,        \* the PDF libraries fallback_pipeline could import
    readable,         \* the libraries that can extract the PDF of the last fallback run
    fb_attempts,      \* the libraries the last fallback run called, in order
    primary_error,    \* what process() caught in its except branch during the last call
    trace,            \* the stages of the last process() call that ended, in order
    job_status,       \* api/v1/ocr.py job_status: job id -> its entry ("absent": no entry)
    disk,             \* the files and directories below DATA_DIR: path -> what is there
    task,             \* the process_pdf_task coroutines: their job and where they stand
    loop,             \* the task that holds the event loop in a blocking call, 0: none
    actor,            \* the job id of the request or task that took the last step
    issued,           \* the job ids upload_pdf has handed out
    org_input,        \* what _organize_output is called on
    org_pc,           \* "ready", "returned" or "raised"
    auto_dir,         \* the directory that _organize_output selected, "none": none
    searched,         \* TRUE when the search below mineru_temp for any *.md was made
    md_file,          \* where the Markdown file that was used lies, "none": none chosen
    tried,            \* the encodings that the Markdown file was read with, in order
    org_output,       \* output.md, images and content_list after the call
    org_error         \* why _organize_output raised, "none" otherwise

sorterVars == <<elements, sorted_by_y, lines, sorted_elements, sort_pc, rounds>>
mergeVars == <<text_blocks, merged, merge_pc>>
statsVars == <<content_list, images_dir, markdown_content, stats, pass_stats, stats_pc>>
renderVars == <<table_counter, figure_counter, formula_counter, page_images, image_files,
                output_md, gen_elements, gen_saved, gen_md, gen_pc, gen_calls>>
pipeVars == <<probe, constructed, mineru_available, pipe_pc, temp_exists, temp_mkdirs, final_md,
              final_images, result, error, mineru_runs, fallback_calls, process_calls,
              probe_runs, libraries, readable, fb_attempts, primary_error, trace>>
apiVars == <<job_status, disk, task, loop, actor, issued>>
organizeVars == <<org_input, org_pc, auto_dir, searched, md_file, tried, org_output, org_error>>
vars == <<y_tolerance, sorterVars, mergeVars, statsVars, renderVars, pipeVars, apiVars,
          organizeVars>>

----------------------------------------------------------------------------
(* Bounds of the model *)

MaxLen == 3        \* longest element list given to sort_reading_order
MaxRounds == 1     \* how often an output is sorted again
MaxBlocks == 3     \* longest block list given to merge_text_blocks
MaxPages == 2      \* most pages in a manifest
MaxFragments == 3  \* most fragments a rendered document is made of
MaxElems == 3      \* longest element list given to generate
MaxGenCalls == 2   \* generate() calls on one MarkdownGenerator
MaxProcessCalls == 2  \* process() calls on one OCRPipeline
MaxTasks == 2      \* conversion tasks started by POST /process

(* Program constants *)

DefaultTolerance == 20
CharsPerPage == 800

----------------------------------------------------------------------------
(* Helpers *)

Abs(n) == IF n < 0 THEN 0 - n ELSE n

Min(a, b) == IF a <= b THEN a ELSE b

Max(a, b) == IF a >= b THEN a ELSE b

BoundedSeq(S, n) == UNION {[1..k -> S] : k \in 0..n}

RECURSIVE Flatten(_)
Flatten(ss) == IF ss = <<>> THEN <<>> ELSE Head(ss) \o Flatten(Tail(ss))

RECURSIVE SeqToBag(_)
SeqToBag(s) == IF s = <<>> THEN EmptyBag ELSE SetToBag({Head(s)}) (+) SeqToBag(Tail(s))

RECURSIVE SumLen(_)
SumLen(ss) == IF ss = <<>> THEN 0 ELSE Len(Head(ss)) + SumLen(Tail(ss))

----------------------------------------------------------------------------
(* ContentSorter: inputs *)

Tolerances == {0, 10, DefaultTolerance}

Title == [type |-> "title", bbox |-> <<0, 0, 100, 20>>]
TextLeft == [type |-> "text", bbox |-> <<0, 25, 100, 40>>]
TextRight == [type |-> "text", bbox |-> <<110, 25, 200, 40>>]

ElementPool ==
    { Title, TextLeft, TextRight,
      [type |-> "table", bbox |-> <<0, 25, 100, 40>>],
      [type |-> "figure", bbox |-> <<110, 15, 200, 30>>],
      [type |-> "text", bbox |-> <<0, 30, 100, 45>>],
      [type |-> "formula", bbox |-> <<110, 0, 200, 20>>],
      [type |-> "text", bbox |-> <<0, 15, 100, 30>>] }

X1(e) == e.bbox[1]

Y1(e) == e.bbox[2]

----------------------------------------------------------------------------
(* ContentSorter.sort_reading_order *)

\* sorted() is stable: an element goes after every element whose key is not larger.
InsertByY(acc, e) ==
    LET p == Cardinality({j \in 1..Len(acc) : Y1(acc[j]) <= Y1(e)})
    IN SubSeq(acc, 1, p) \o <<e>> \o SubSeq(acc, p + 1, Len(acc))

SortByYUnsorted(s) == s

SortByY(s) ==
    LET F[i \in 0..Len(s)] == IF i = 0 THEN <<>> ELSE InsertByY(F[i - 1], s[i])
    IN F[Len(s)]

InsertByX(acc, e) ==
    LET p == Cardinality({j \in 1..Len(acc) : X1(acc[j]) <= X1(e)})
    IN SubSeq(acc, 1, p) \o <<e>> \o SubSeq(acc, p + 1, Len(acc))

\* an unstable sort: elements of equal x1 come out in reverse order
InsertByXUnstable(acc, e) ==
    LET p == Cardinality({j \in 1..Len(acc) : X1(acc[j]) < X1(e)})
    IN SubSeq(acc, 1, p) \o <<e>> \o SubSeq(acc, p + 1, Len(acc))

SortByXUnstable(s) ==
    LET F[i \in 0..Len(s)] == IF i = 0 THEN <<>> ELSE InsertByXUnstable(F[i - 1], s[i])
    IN F[Len(s)]

SortByX(s) ==
    LET F[i \in 0..Len(s)] == IF i = 0 THEN <<>> ELSE InsertByX(F[i - 1], s[i])
    IN F[Len(s)]

\* a grouping that starts a new line already at a distance of exactly the tolerance
LineStepStrict(st, elem, tol) ==
    IF Abs(Y1(elem) - st.current_y) < tol
    THEN [st EXCEPT !.current_line = Append(@, elem)]
    ELSE [lines |-> Append(st.lines, st.current_line),
          current_line |-> <<elem>>,
          current_y |-> Y1(elem)]

\* the loop body of _group_by_lines with current_y moved to every element
LineStepChained(st, elem, tol) ==
    IF Abs(Y1(elem) - st.current_y) <= tol
    THEN [st EXCEPT !.current_line = Append(@, elem), !.current_y = Y1(elem)]
    ELSE [lines |-> Append(st.lines, st.current_line),
          current_line |-> <<elem>>,
          current_y |-> Y1(elem)]

\* the loop body of _group_by_lines
LineStep(st, elem, tol) ==
    IF Abs(Y1(elem) - st.current_y) <= tol
    THEN [st EXCEPT !.current_line = Append(@, elem)]
    ELSE [lines |-> Append(st.lines, st.current_line),
          current_line |-> <<elem>>,
          current_y |-> Y1(elem)]

\* _group_by_lines without its final "lines.append(current_line)"
GroupByLinesNoLast(elems, tol) ==
    LET F[i \in 1..Len(elems)] ==
            IF i = 1
            THEN [lines |-> <<>>, current_line |-> <<elems[1]>>, current_y |-> Y1(elems[1])]
            ELSE LineStep(F[i - 1], elems[i], tol)
    IN IF elems = <<>> THEN <<>> ELSE F[Len(elems)].lines

GroupByLines(elems, tol) ==
    LET F[i \in 1..Len(elems)] ==
            IF i = 1
            THEN [lines |-> <<>>, current_line |-> <<elems[1]>>, current_y |-> Y1(elems[1])]
            ELSE LineStep(F[i - 1], elems[i], tol)
    IN IF elems = <<>> THEN <<>>
       ELSE Append(F[Len(elems)].lines, F[Len(elems)].current_line)

SortReadingOrder(elems, tol) ==
    IF elems = <<>> THEN <<>>
    ELSE LET ls == GroupByLines(SortByY(elems), tol)
         IN Flatten([k \in 1..Len(ls) |-> SortByX(ls[k])])

\* one call of sort_reading_order on the argument `elements`
SortCall ==
    /\ sort_pc = "ready"
    /\ sorted_by_y' = IF elements = <<>> THEN <<>> ELSE SortByY(elements)
    /\ lines' = IF elements = <<>> THEN <<>> ELSE GroupByLines(SortByY(elements), y_tolerance)
    /\ sorted_elements' = SortReadingOrder(elements, y_tolerance)
    /\ sort_pc' = "sorted"
    /\ UNCHANGED <<y_tolerance, elements, rounds, mergeVars, statsVars, renderVars, pipeVars, apiVars, organizeVars>>

\* the caller passes the returned list to sort_reading_order again
Resubmit ==
    /\ sort_pc = "sorted"
    /\ rounds < MaxRounds
    /\ elements' = sorted_elements
    /\ rounds' = rounds + 1
    /\ sort_pc' = "ready"
    /\ UNCHANGED <<y_tolerance, sorted_by_y, lines, sorted_elements, mergeVars, statsVars,
                   renderVars, pipeVars, apiVars, organizeVars>>

----------------------------------------------------------------------------
(* ContentSorter.merge_text_blocks *)

Texts == { <<>>, <<"a">>, <<"b", "c">> }

BlockBoxes == { <<0, 0, 100, 10>>, <<10, 15, 90, 28>>, <<0, 30, 120, 40>>, <<5, 60, 80, 70>> }

TextBlockPool == [text : Texts, bbox : BlockBoxes]

ShouldMerge(block1, block2, tol) == Abs(block2.bbox[2] - block1.bbox[2]) <= tol

\* a merge that keeps the bbox of the paragraph's first block
MergeBboxKeepFirst(bbox1, bbox2) == bbox1

\* min / max per coordinate
MergeBbox(bbox1, bbox2) ==
    << Min(bbox1[1], bbox2[1]), Min(bbox1[2], bbox2[2]),
       Max(bbox1[3], bbox2[3]), Max(bbox1[4], bbox2[4]) >>

JoinTextWide(paragraph, text) == paragraph \o <<" ", " ">> \o text

\* current_paragraph += " " + block['text']
JoinText(paragraph, text) == paragraph \o <<" ">> \o text

Paragraph(content, bbox) == [type |-> "text", content |-> content, bbox |-> bbox]

MergeTextBlocks(blocks, tol) ==
    LET F[i \in 1..Len(blocks)] ==
            IF i = 1
            THEN [merged |-> <<>>,
                  current_paragraph |-> blocks[1].text,
                  current_bbox |-> blocks[1].bbox]
            ELSE IF ShouldMerge(blocks[i - 1], blocks[i], tol)
                 THEN [merged |-> F[i - 1].merged,
                       current_paragraph |-> JoinText(F[i - 1].current_paragraph, blocks[i].text),
                       current_bbox |-> MergeBbox(F[i - 1].current_bbox, blocks[i].bbox)]
                 ELSE [merged |-> Append(F[i - 1].merged,
                                         Paragraph(F[i - 1].current_paragraph,
                                                   F[i - 1].current_bbox)),
                       current_paragraph |-> blocks[i].text,
                       current_bbox |-> blocks[i].bbox]
    IN IF blocks = <<>> THEN <<>>
       ELSE Append(F[Len(blocks)].merged,
                   Paragraph(F[Len(blocks)].current_paragraph, F[Len(blocks)].current_bbox))

MergeCall ==
    /\ merge_pc = "ready"
    /\ merged' = MergeTextBlocks(text_blocks, y_tolerance)
    /\ merge_pc' = "merged"
    /\ UNCHANGED <<y_tolerance, text_blocks, sorterVars, statsVars, renderVars, pipeVars, apiVars, organizeVars>>

----------------------------------------------------------------------------
(* OCRPipeline._extract_stats: inputs *)

\* a page of the manifest is its list of preproc_blocks, a block is its 'type'
PagePool ==
    { <<>>,
      <<"table", "image", "image", "equation", "inline_equation", "text">> }

\* {} (no manifest file, or JSON that is no list) or the list of pages
NoManifest == [kind |-> "dict", pages |-> <<>>]

Manifests == {NoManifest} \cup [kind : {"list"}, pages : BoundedSeq(PagePool, MaxPages)]

ImageFilePool ==
    { [stem |-> "fig1", ext |-> "png"],
      [stem |-> "fig2", ext |-> "jpg"],
      [stem |-> "fig3", ext |-> "jpeg"],
      [stem |-> "notes", ext |-> "txt"] }

ImagesDirs ==
    {[exists |-> FALSE, files |-> {}]} \cup [exists : {TRUE}, files : SUBSET ImageFilePool]

\* A document is a sequence of characters. "PLAIN" stands for a run of CharsPerPage
\* characters of running text, none of them '!', '[', '|', '-' or '$'.
Plain == "PLAIN"

MarkdownFragments ==
    { <<"!", "[">>, <<"|", "-", "-">>, <<"-">>, <<"$">>, <<Plain>> }

Markdowns == {Flatten(fs) : fs \in BoundedSeq(MarkdownFragments, MaxFragments)}

\* len(markdown_content)
RECURSIVE CharCount(_)
CharCount(md) ==
    IF md = <<>> THEN 0
    ELSE (IF Head(md) = Plain THEN CharsPerPage ELSE 1) + CharCount(Tail(md))

\* str.count: the occurrences of sub in md[i..], left to right, not overlapping
RECURSIVE CountFrom(_, _, _)
CountFrom(sub, md, i) ==
    IF i + Len(sub) - 1 > Len(md) THEN 0
    ELSE IF SubSeq(md, i, i + Len(sub) - 1) = sub
         THEN 1 + CountFrom(sub, md, i + Len(sub))
         ELSE CountFrom(sub, md, i + 1)

Count(sub, md) == CountFrom(sub, md, 1)

----------------------------------------------------------------------------
(* OCRPipeline._extract_stats *)

ZeroStats ==
    [total_pages |-> 0, total_elements |-> 0, tables |-> 0,
     figures |-> 0, formulas |-> 0, total_images |-> 0]

AllBlocks(pages) == Flatten(pages)

CountBlocks(pages, types) ==
    LET blocks == AllBlocks(pages)
    IN Cardinality({i \in 1..Len(blocks) : blocks[i] \in types})

\* pass 1: "if content_list and isinstance(content_list, list)"
ManifestPass(st, cl) ==
    IF cl.kind = "list" /\ cl.pages # <<>>
    THEN [st EXCEPT !.total_pages = st.total_pages + Len(cl.pages),
                    !.total_elements = st.total_elements + Len(AllBlocks(cl.pages)),
                    !.tables = st.tables + CountBlocks(cl.pages, {"table"}),
                    !.figures = st.figures + CountBlocks(cl.pages, {"image"}),
                    !.formulas = st.formulas
                                   + CountBlocks(cl.pages, {"equation", "inline_equation"})]
    ELSE st

CountImageFilesPngOnly(dir) == Cardinality({f \in dir.files : f.ext = "png"})

\* len(rglob("*.png") + rglob("*.jpg") + rglob("*.jpeg"))
CountImageFiles(dir) ==
    Cardinality({f \in dir.files : f.ext = "png"})
      + Cardinality({f \in dir.files : f.ext = "jpg"})
      + Cardinality({f \in dir.files : f.ext = "jpeg"})

\* pass 2: "if stats['figures'] == 0 and output_dir" (process always gives output_dir)
DiskPass(st, dir) ==
    IF st.figures = 0 /\ dir.exists
    THEN [st EXCEPT !.figures = CountImageFiles(dir), !.total_images = CountImageFiles(dir)]
    ELSE st

MdImages(md) == Count(<<"!", "[">>, md)

MdTables(md) == Count(<<"|", "-", "-">>, md) + Count(<<"|", "-", "-", "-">>, md)

MdFormulas(md) == (Count(<<"$", "$">>, md) \div 2) + (Count(<<"$">>, md) \div 2)

\* pass 3 taking the document's counts whether or not they are larger
MarkdownPassOverwrite(st, md) ==
    IF md # <<>>
    THEN [st EXCEPT !.figures = MdImages(md),
                    !.tables = MdTables(md),
                    !.formulas = MdFormulas(md)]
    ELSE st

\* pass 3: "if markdown_content"
MarkdownPass(st, md) ==
    IF md # <<>>
    THEN [st EXCEPT !.figures = IF MdImages(md) > st.figures THEN MdImages(md) ELSE @,
                    !.tables = IF MdTables(md) > st.tables THEN MdTables(md) ELSE @,
                    !.formulas = IF MdFormulas(md) > st.formulas THEN MdFormulas(md) ELSE @]
    ELSE st

\* pass 4: "if stats['total_pages'] == 0 and markdown_content"
PageEstimatePass(st, md) ==
    IF st.total_pages = 0 /\ md # <<>>
    THEN [st EXCEPT !.total_pages = Max(1, CharCount(md) \div CharsPerPage)]
    ELSE st

\* the stats dict when created and after each pass
StatsPasses(cl, dir, md) ==
    LET s1 == ManifestPass(ZeroStats, cl)
        s2 == DiskPass(s1, dir)
        s3 == MarkdownPass(s2, md)
        s4 == PageEstimatePass(s3, md)
    IN <<ZeroStats, s1, s2, s3, s4>>

ExtractStats(cl, dir, md) == StatsPasses(cl, dir, md)[5]

ExtractStatsCall ==
    /\ stats_pc = "ready"
    /\ LET passes == StatsPasses(content_list, images_dir, markdown_content)
       IN /\ pass_stats' = passes
          /\ stats' = passes[5]
    /\ stats_pc' = "done"
    /\ UNCHANGED <<y_tolerance, sorterVars, mergeVars, content_list, images_dir,
                   markdown_content, renderVars, pipeVars, apiVars, organizeVars>>

----------------------------------------------------------------------------
(* MarkdownGenerator: inputs *)

RenderPool ==
    { [type |-> "title", content |-> "Introduction", latex |-> "", page_num |-> 0,
       bbox |-> <<0, 0, 100, 20>>],
      [type |-> "text", content |-> "Some text", latex |-> "", page_num |-> 0,
       bbox |-> <<0, 25, 100, 40>>],
      [type |-> "formula", content |-> "", latex |-> "E=mc^2", page_num |-> 0,
       bbox |-> <<0, 50, 100, 60>>],
      [type |-> "formula", content |-> "", latex |-> "", page_num |-> 0,
       bbox |-> <<0, 70, 100, 80>>],
      [type |-> "table", content |-> "", latex |-> "", page_num |-> 0,
       bbox |-> <<0, 90, 100, 120>>],
      [type |-> "table", content |-> "", latex |-> "", page_num |-> 1,
       bbox |-> <<0, 10, 100, 40>>],
      [type |-> "figure", content |-> "", latex |-> "", page_num |-> 0,
       bbox |-> <<110, 90, 200, 120>>] }

PageImageCounts == {1, 2}

----------------------------------------------------------------------------
(* MarkdownGenerator.generate *)

Digits == <<"0", "1", "2", "3", "4", "5", "6", "7", "8", "9">>

\* the decimal digits an f-string writes for a counter
RECURSIVE Dec(_)
Dec(n) == IF n < 10 THEN <<Digits[n + 1]>> ELSE Dec(n \div 10) \o <<Digits[(n % 10) + 1]>>

\* f"table_{n}.png"
FileName(prefix, n) == <<prefix, "_">> \o Dec(n) \o <<".png">>

\* f"images/{filename}"
RelativePath(filename) == <<"images/">> \o filename

\* f"Table {n}"
Label(word, n) == <<word, " ">> \o Dec(n)

MdLine(kind, text, path) == [kind |-> kind, text |-> text, path |-> path]

\* page_images[elem['page_num']] raises IndexError beyond the list
PageInRange(elem, np) == elem.page_num < np

\* _save_region_image: crop bbox from the page and save it under images_dir
SaveRegionImage(files, elem, filename) ==
    [name \in (DOMAIN files) \cup {filename} |->
        IF name = filename THEN [page |-> elem.page_num, region |-> elem.bbox]
        ELSE files[name]]

\* the three image branches of the loop: count, save, caption, reference
RenderImage(st, elem, np, n, prefix, word, captioned) ==
    IF ~PageInRange(elem, np) THEN [st EXCEPT !.failed = TRUE]
    ELSE [st EXCEPT
            !.files = SaveRegionImage(st.files, elem, FileName(prefix, n)),
            !.saved = Append(st.saved, FileName(prefix, n)),
            !.md_lines =
                st.md_lines
                  \o (IF captioned THEN <<MdLine("bold", Label(word, n), <<>>)>> ELSE <<>>)
                  \o <<MdLine("image", Label(word, n), RelativePath(FileName(prefix, n)))>>]

\* the body of "for elem in sorted_elements"
RenderStep(st, elem, np) ==
    IF st.failed THEN st
    ELSE CASE elem.type = "title" ->
                [st EXCEPT !.md_lines = Append(@, MdLine("bold", <<elem.content>>, <<>>))]
           [] elem.type = "text" ->
                [st EXCEPT !.md_lines = Append(@, MdLine("plain", <<elem.content>>, <<>>))]
           [] elem.type = "formula" /\ elem.latex # "" ->
                [st EXCEPT !.md_lines = Append(@, MdLine("math", <<elem.latex>>, <<>>))]
           [] elem.type = "formula" /\ elem.latex = "" ->
                RenderImage([st EXCEPT !.formula_counter = @ + 1], elem, np,
                            st.formula_counter + 1, "formula", "Formula", FALSE)
           [] elem.type = "table" ->
                RenderImage([st EXCEPT !.table_counter = @ + 1], elem, np,
                            st.table_counter + 1, "table", "Table", TRUE)
           [] elem.type = "figure" ->
                RenderImage([st EXCEPT !.figure_counter = @ + 1], elem, np,
                            st.figure_counter + 1, "figure", "Figure", TRUE)
           [] OTHER -> st

\* generate() starts from the counters the instance holds: they are set in __init__ only
RenderStart(tc, fc, oc, files) ==
    [md_lines |-> <<>>, table_counter |-> tc, figure_counter |-> fc, formula_counter |-> oc,
     files |-> files, saved |-> <<>>, failed |-> FALSE]

RenderAll(elems, np, tc, fc, oc, files) ==
    LET F[i \in 0..Len(elems)] ==
            IF i = 0 THEN RenderStart(tc, fc, oc, files)
            ELSE RenderStep(F[i - 1], elems[i], np)
    IN F[Len(elems)]

\* one call of generate(sorted_elements, page_images)
Generate ==
    /\ gen_calls < MaxGenCalls
    /\ \E elems \in BoundedSeq(RenderPool, MaxElems) :
          LET r == RenderAll(elems, page_images, table_counter, figure_counter,
                             formula_counter, image_files)
          IN /\ gen_elements' = elems
             /\ table_counter' = r.table_counter
             /\ figure_counter' = r.figure_counter
             /\ formula_counter' = r.formula_counter
             /\ image_files' = r.files
             /\ gen_saved' = r.saved
             /\ gen_md' = IF r.failed THEN <<>> ELSE r.md_lines
             /\ output_md' = IF r.failed THEN output_md
                             ELSE [exists |-> TRUE, content |-> r.md_lines]
             /\ gen_pc' = IF r.failed THEN "raised" ELSE "returned"
    /\ gen_calls' = gen_calls + 1
    /\ UNCHANGED <<y_tolerance, sorterVars, mergeVars, statsVars, page_images, pipeVars, apiVars, organizeVars>>

----------------------------------------------------------------------------
(* OCRPipeline: inputs *)

\* how subprocess.run(["mineru", "--version"]) ends: exit code 0, another exit code,
\* FileNotFoundError, TimeoutExpired, or an OSError the probe does not catch
ProbeOutcomes == {"ok", "nonzero", "missing", "timeout", "oserror"}

\* how the engine run inside _run_mineru_async ends
EngineOutcomes == {"zero", "nonzero", "timeout"}

\* what the engine left under mineru_temp: which candidate directories exist and
\* where Markdown files lie ("root": under mineru_temp but under neither auto directory)
TempTrees ==
    { t \in [auto : BOOLEAN, stem_auto : BOOLEAN, md : SUBSET {"auto", "stem_auto", "root"}] :
        /\ ("auto" \in t.md => t.auto)
        /\ ("stem_auto" \in t.md => t.stem_auto) }

Encodings == <<"utf-8", "cp932", "latin-1">>

\* the encodings that decode a file's bytes without error; latin-1 decodes every file
DecodableSets == { {"utf-8", "cp932", "latin-1"}, {"cp932", "latin-1"}, {"latin-1"} }

EngineMarkdowns == { <<>>, <<"!", "[">>, <<Plain>> }

\* a Markdown file of the engine: the encodings that decode it and the text that the
\* first of them gives
MdFiles == [decodable : DecodableSets, text : EngineMarkdowns]

EngineImages ==
    { [exists |-> FALSE, files |-> {}],
      [exists |-> TRUE, files |-> {[stem |-> "fig1", ext |-> "png"]}] }

\* the *content_list.json of the engine: absent, not JSON, the parsed value, or
\* ("malformed") a JSON list whose entries are no objects, on which page.get raises
ManifestFiles ==
    { [file |-> "none", json |-> NoManifest],
      [file |-> "invalid", json |-> NoManifest],
      [file |-> "json", json |-> NoManifest],
      [file |-> "json", json |-> [kind |-> "list", pages |-> <<<<"table", "image">>>>]],
      [file |-> "malformed", json |-> NoManifest] }

\* how FallbackPipeline ends: done, no PDF library, output_dir.mkdir fails,
\* _extract_pdf_text raises, output.md cannot be opened, or the write breaks off
FallbackOutcomes ==
    {"ok", "no_library", "mkdir_error", "extract_error", "open_error", "write_error"}

\* PYPDF2_AVAILABLE and PYPDF_AVAILABLE: the libraries that could be imported
LibraryNames == {"PyPDF2", "pypdf"}

\* what can go wrong around the extraction: nothing, output_dir.mkdir, opening
\* output.md, writing it
FallbackIO == {"ok", "mkdir_error", "open_error", "write_error"}

\* text_content as _extract_pdf_text returns it
FallbackTexts == { <<>>, <<"a", " ", "b", "\n">> }

\* len(pdf_reader.pages) in _generate_stats, 0 when the second read fails
PageCounts == {0, 1}

----------------------------------------------------------------------------
(* OCRPipeline.__init__ and _check_mineru_available *)

\* a probe that takes any exit code for success
CheckMineruAvailableAnyExit(p) == p \in {"ok", "nonzero"}

\* True only for exit code 0; FileNotFoundError and TimeoutExpired are caught
CheckMineruAvailable(p) == p = "ok"

\* any other exception leaves __init__: no instance
ProbeRaises(p) == p = "oserror"

----------------------------------------------------------------------------
(* FallbackPipeline.process and OCRPipeline._use_fallback *)

NoResult == [none |-> TRUE]

Error(kind, cause) == [kind |-> kind, cause |-> cause]

NoError == Error("none", "none")

Whitespace == {" ", "\n"}

\* len(text_content.split())
WordCount(text) ==
    Cardinality({i \in 1..Len(text) :
                    /\ text[i] \notin Whitespace
                    /\ (i = 1 \/ text[i - 1] \in Whitespace)})

\* _create_basic_markdown: title, notice, the text, footer
CreateBasicMarkdown(text) == <<"#", " ", "stem", "\n", "NOTICE">> \o text \o <<"FOOTER">>

GenerateStats(pages, text) ==
    [total_pages |-> pages, total_elements |-> 0, tables |-> 0, figures |-> 0,
     formulas |-> 0, word_count |-> WordCount(text), char_count |-> Len(text),
     fallback |-> TRUE]

\* a fallback result that also carries the flag of the primary path
FallbackResultBothTiers(text, pages) ==
    [markdown |-> CreateBasicMarkdown(text), output_dir |-> "output_dir",
     stats |-> GenerateStats(pages, text), fallback |-> TRUE, fallback_used |-> TRUE,
     mineru_success |-> TRUE]

\* the dict of FallbackPipeline.process with result['fallback_used'] = True
FallbackResult(text, pages) ==
    [markdown |-> CreateBasicMarkdown(text), output_dir |-> "output_dir",
     stats |-> GenerateStats(pages, text), fallback |-> TRUE, fallback_used |-> TRUE]

\* _use_fallback when output.md is md: every exception is wrapped and raised
UseFallback(fb, text, pages, md) ==
    CASE fb = "ok" ->
            [pc |-> "returned", result |-> FallbackResult(text, pages), error |-> NoError,
             md |-> [exists |-> TRUE, content |-> CreateBasicMarkdown(text)]]
      [] fb = "write_error" ->
            [pc |-> "raised", result |-> NoResult, error |-> Error("all_failed", fb),
             md |-> [exists |-> TRUE, content |-> <<>>]]
      [] OTHER ->
            [pc |-> "raised", result |-> NoResult, error |-> Error("all_failed", fb),
             md |-> md]

\* _extract_pdf_text: "if PYPDF2_AVAILABLE: ... elif PYPDF_AVAILABLE: ...", one library
\* is called and its exception is raised on
ChosenLibraries(libs) ==
    IF "PyPDF2" \in libs THEN <<"PyPDF2">>
    ELSE IF "pypdf" \in libs THEN <<"pypdf">>
    ELSE <<>>

\* how FallbackPipeline() and its process() end
FallbackOutcome(libs, can_read, io) ==
    IF libs = {} THEN "no_library"
    ELSE IF io = "mkdir_error" THEN "mkdir_error"
    ELSE IF ChosenLibraries(libs)[1] \notin can_read THEN "extract_error"
    ELSE io

\* the libraries called before the fallback ended
LibrariesCalled(libs, io) ==
    IF libs = {} \/ io = "mkdir_error" THEN <<>> ELSE ChosenLibraries(libs)

Stage(name, ok) == [stage |-> name, ok |-> ok]

\* "return await self._use_fallback(pdf_path, output_dir)" after the stages in done
RunFallback(md, images, temp, done) ==
    \E can_read \in SUBSET LibraryNames, io \in FallbackIO,
       text \in FallbackTexts, pages \in PageCounts :
        LET fb == FallbackOutcome(libraries, can_read, io)
            r == UseFallback(fb, text, pages, md)
        IN /\ pipe_pc' = r.pc
           /\ result' = r.result
           /\ error' = r.error
           /\ final_md' = r.md
           /\ final_images' = images
           /\ temp_exists' = temp
           /\ fallback_calls' = fallback_calls + 1
           /\ readable' = can_read
           /\ fb_attempts' = LibrariesCalled(libraries, io)
           /\ trace' = Append(done, Stage("fallback", r.pc = "returned"))

----------------------------------------------------------------------------
(* OCRPipeline._organize_output *)

\* the first of possible_dirs that exists; mineru_temp itself was created by process
FindAutoDir(tree) ==
    IF tree.auto THEN "auto" ELSE IF tree.stem_auto THEN "stem_auto" ELSE "root"

\* where auto_dir.rglob("*.md") looks
Under(dir) == IF dir = "root" THEN {"auto", "stem_auto", "root"} ELSE {dir}

MdFound(tree) == tree.md \cap Under(FindAutoDir(tree)) # {}

\* the first encoding of utf-8, cp932, latin-1 that decodes the file
FirstDecoding(file) ==
    Encodings[CHOOSE i \in 1..Len(Encodings) :
                 /\ Encodings[i] \in file.decodable
                 /\ \A j \in 1..(i - 1) : Encodings[j] \notin file.decodable]

\* read_text with the first encoding that raises no UnicodeDecodeError
ReadMarkdown(file) == [encoding |-> FirstDecoding(file), content |-> file.text]

\* copytree over final_images when the engine wrote an images directory
CopyImages(engine_images, images) == IF engine_images.exists THEN engine_images ELSE images

----------------------------------------------------------------------------
(* OCRPipeline.process *)

\* a primary result that returns the text with a line appended after output.md was read
PrimaryResultEdited(markdown, cl, images) ==
    [markdown |-> markdown \o <<"\n">>, output_dir |-> "output_dir",
     stats |-> ExtractStats(cl, images, markdown), mineru_success |-> TRUE]

\* the dict of the primary path
PrimaryResult(markdown, cl, images) ==
    [markdown |-> markdown, output_dir |-> "output_dir",
     stats |-> ExtractStats(cl, images, markdown), mineru_success |-> TRUE]

\* a process() that gives MinerU up after a failed attempt
DropAvailability(available, caught) == FALSE

\* process() has no assignment to self.mineru_available, whatever it caught
KeepAvailability(available, caught) == available

\* an except branch that runs the engine again instead of falling back
PrimaryRetried(md, images, caught, done) ==
    /\ primary_error' = caught
    /\ pipe_pc' = "mineru"
    /\ result' = NoResult
    /\ error' = NoError
    /\ final_md' = md
    /\ final_images' = images
    /\ trace' = done
    /\ UNCHANGED <<mineru_available, temp_exists, fallback_calls, readable, fb_attempts>>

\* the except branch after the stages in done: remove mineru_temp, then fall back; an
\* exception of rmtree leaves process as it is
PrimaryFailed(md, images, caught, done) ==
    /\ primary_error' = caught
    /\ mineru_available' = KeepAvailability(mineru_available, caught)
    /\ \E rm \in {"ok", "error"} :
          IF rm = "error"
          THEN /\ pipe_pc' = "raised"
               /\ result' = NoResult
               /\ error' = Error("rmtree", "none")
               /\ final_md' = md
               /\ final_images' = images
               /\ temp_exists' = TRUE
               /\ trace' = Append(done, Stage("cleanup", FALSE))
               /\ UNCHANGED <<fallback_calls, readable, fb_attempts>>
          ELSE RunFallback(md, images, FALSE, Append(done, Stage("cleanup", TRUE)))

\* process() from its call to its first suspension: to the end when MinerU is not
\* available, else up to the await inside _run_mineru_async
ProcessCall ==
    /\ constructed
    /\ pipe_pc # "mineru"
    /\ process_calls < MaxProcessCalls
    /\ process_calls' = process_calls + 1
    /\ primary_error' = "none"
    /\ IF ~mineru_available
       THEN /\ RunFallback(final_md, final_images, temp_exists, <<>>)
            /\ UNCHANGED <<temp_mkdirs, mineru_runs>>
       ELSE \E mk \in {"ok", "error"} :
               IF mk = "error"
               THEN /\ pipe_pc' = "raised"
                    /\ result' = NoResult
                    /\ error' = Error("mkdir", "none")
                    /\ trace' = <<Stage("mkdir", FALSE)>>
                    /\ readable' = {}
                    /\ fb_attempts' = <<>>
                    /\ UNCHANGED <<temp_exists, temp_mkdirs, mineru_runs, final_md,
                                   final_images, fallback_calls>>
               ELSE /\ temp_exists' = TRUE
                    /\ temp_mkdirs' = temp_mkdirs + 1
                    /\ mineru_runs' = mineru_runs + 1
                    /\ pipe_pc' = "mineru"
                    /\ result' = NoResult
                    /\ error' = NoError
                    /\ trace' = <<Stage("mkdir", TRUE)>>
                    /\ readable' = {}
                    /\ fb_attempts' = <<>>
                    /\ UNCHANGED <<final_md, final_images, fallback_calls>>
    /\ UNCHANGED <<y_tolerance, sorterVars, mergeVars, statsVars, renderVars, apiVars, organizeVars,
                   probe, constructed, mineru_available, probe_runs, libraries>>

\* process() from the end of the engine run to its return or raise
ProcessResume ==
    /\ pipe_pc = "mineru"
    /\ \E engine \in EngineOutcomes :
          IF engine # "zero"
          THEN PrimaryFailed(final_md, final_images,
                             IF engine = "timeout" THEN "engine_timeout" ELSE "engine_nonzero",
                             Append(trace, Stage("mineru", FALSE)))
          ELSE \E found \in {MdFound(tree) : tree \in TempTrees} :
                  IF ~found
                  THEN PrimaryFailed(final_md, final_images, "no_markdown",
                                     trace \o <<Stage("mineru", TRUE), Stage("organize", FALSE)>>)
                  ELSE \E content \in {ReadMarkdown(file).content : file \in MdFiles},
                          imgs \in EngineImages, mf \in ManifestFiles :
                          LET md == [exists |-> TRUE, content |-> content]
                              images == CopyImages(imgs, final_images)
                          IN CASE mf.file = "invalid" ->
                                    PrimaryFailed(md, images, "invalid_json",
                                                  trace \o <<Stage("mineru", TRUE),
                                                             Stage("organize", FALSE)>>)
                               [] mf.file = "malformed" ->
                                    PrimaryFailed(md, images, "stats_error",
                                                  trace \o <<Stage("mineru", TRUE),
                                                             Stage("organize", TRUE),
                                                             Stage("stats", FALSE)>>)
                               [] OTHER ->
                                    /\ pipe_pc' = "returned"
                                    /\ result' = PrimaryResult(md.content, mf.json, images)
                                    /\ error' = NoError
                                    /\ final_md' = md
                                    /\ final_images' = images
                                    /\ trace' = trace \o <<Stage("mineru", TRUE),
                                                           Stage("organize", TRUE),
                                                           Stage("stats", TRUE)>>
                                    /\ UNCHANGED <<temp_exists, fallback_calls, readable,
                                                   fb_attempts, primary_error,
                                                   mineru_available>>
    /\ UNCHANGED <<y_tolerance, sorterVars, mergeVars, statsVars, renderVars, apiVars, organizeVars,
                   probe, constructed, temp_mkdirs, mineru_runs, process_calls,
                   probe_runs, libraries>>

----------------------------------------------------------------------------
(* api/v1/ocr.py: paths and files *)

\* job ids as uuid4 hands them out
Jobs == {"j1", "j2"}

TaskIds == 1..MaxTasks

\* a path is the sequence of its components below DATA_DIR
\* settings.UPLOADS_DIR / f"{job_id}.pdf"
UploadPath(job) == <<"uploads", job>>

\* an output directory that all jobs share
OutputDirShared(job) == <<"outputs", "shared">>

\* settings.OUTPUTS_DIR / job_id
OutputDir(job) == <<"outputs", job>>

\* output_dir / "mineru_temp"
TempDir(job) == OutputDir(job) \o <<"mineru_temp">>

\* output_dir / "output.md"
OutputMd(job) == OutputDir(job) \o <<"output.md">>

\* output_dir / "images"
ImagesDir(job) == OutputDir(job) \o <<"images">>

\* downloads_dir / f"{job_id}.zip"
ZipPath(job) == <<"downloads", job>>

Dir == [kind |-> "dir", content |-> <<>>, files |-> {}]

File(content) == [kind |-> "file", content |-> content, files |-> {}]

Exists(f, p) == p \in DOMAIN f

\* write_text / write_bytes / copytree: p holds v afterwards
Write(f, p, v) == [q \in (DOMAIN f) \cup {p} |-> IF q = p THEN v ELSE f[q]]

\* mkdir(exist_ok=True)
Mkdir(f, p) == IF Exists(f, p) THEN f ELSE Write(f, p, Dir)

Inside(dir, p) == Len(dir) <= Len(p) /\ SubSeq(p, 1, Len(dir)) = dir

\* shutil.rmtree / unlink: dir and everything below it is gone
RemoveTree(f, dir) == [q \in {p \in DOMAIN f : ~Inside(dir, p)} |-> f[q]]

\* the images directory as _extract_stats sees it
ImagesRecord(f, job) ==
    IF Exists(f, ImagesDir(job))
    THEN [exists |-> TRUE, files |-> f[ImagesDir(job)].files]
    ELSE [exists |-> FALSE, files |-> {}]

\* output.md as the fallback finds it
MdRecord(f, job) ==
    IF Exists(f, OutputMd(job))
    THEN [exists |-> TRUE, content |-> f[OutputMd(job)].content]
    ELSE [exists |-> FALSE, content |-> <<>>]

----------------------------------------------------------------------------
(* api/v1/ocr.py: the handlers *)

Absent == [status |-> "absent", result |-> NoResult]

NoTask == [job |-> "none", pc |-> "unused"]

Present(job) == job_status[job].status # "absent"

InFlight == {"queued", "probing", "engine", "fallback"}

\* upload_pdf: a new job id, the PDF saved, the job registered
UploadPdf ==
    /\ loop = 0
    /\ \E job \in Jobs \ issued :
          /\ issued' = issued \cup {job}
          /\ disk' = Write(disk, UploadPath(job), File(<<"pdf">>))
          /\ job_status' = [job_status EXCEPT ![job] = [status |-> "uploaded",
                                                        result |-> NoResult]]
          /\ actor' = job
    /\ UNCHANGED <<task, loop>>
    /\ UNCHANGED <<y_tolerance, sorterVars, mergeVars, statsVars, renderVars, pipeVars, organizeVars>>

\* process_pdf: 404 for an unknown job or a missing PDF, else the status becomes
\* 'processing' and a background task is added
ProcessPdf ==
    /\ loop = 0
    /\ \E job \in issued :
          /\ actor' = job
          /\ IF ~Present(job) \/ ~Exists(disk, UploadPath(job))
             THEN UNCHANGED <<job_status, task>>
             ELSE \E t \in TaskIds :
                     /\ task[t].pc = "unused"
                     /\ \A u \in 1..(t - 1) : task[u].pc # "unused"
                     /\ task' = [task EXCEPT ![t] = [job |-> job, pc |-> "queued"]]
                     /\ job_status' = [job_status EXCEPT ![job].status = "processing"]
    /\ UNCHANGED <<disk, loop, issued>>
    /\ UNCHANGED <<y_tolerance, sorterVars, mergeVars, statsVars, renderVars, pipeVars, organizeVars>>

\* get_status
GetStatus ==
    /\ loop = 0
    /\ \E job \in issued :
          /\ actor' = job
    /\ UNCHANGED <<job_status, disk, task, loop, issued>>
    /\ UNCHANGED <<y_tolerance, sorterVars, mergeVars, statsVars, renderVars, pipeVars, organizeVars>>

\* download_zip: the ZIP of a completed job whose output directory exists
DownloadZip ==
    /\ loop = 0
    /\ \E job \in issued :
          /\ actor' = job
          /\ IF ~Present(job) \/ ~Exists(disk, OutputDir(job))
             THEN disk' = disk
             ELSE IF job_status[job].status # "completed"
             THEN disk' = disk
             ELSE disk' = Write(disk, ZipPath(job), File(<<"zip">>))
    /\ UNCHANGED <<job_status, task, loop, issued>>
    /\ UNCHANGED <<y_tolerance, sorterVars, mergeVars, statsVars, renderVars, pipeVars, organizeVars>>

\* cleanup_job: the PDF, the output directory, the ZIP and the job's entry are removed
CleanupJob ==
    /\ loop = 0
    /\ \E job \in issued :
          /\ actor' = job
          /\ IF ~Present(job)
             THEN UNCHANGED <<disk, job_status>>
             ELSE /\ disk' = RemoveTree(RemoveTree(RemoveTree(disk, UploadPath(job)),
                                                 OutputDir(job)),
                                      ZipPath(job))
                  /\ job_status' = [job_status EXCEPT ![job] = Absent]
    /\ UNCHANGED <<task, loop, issued>>
    /\ UNCHANGED <<y_tolerance, sorterVars, mergeVars, statsVars, renderVars, pipeVars, organizeVars>>

----------------------------------------------------------------------------
(* api/v1/ocr.py: process_pdf_task *)

\* job_status[job_id].update(...) at the end of the task; for a job that was cleaned up
\* the update raises KeyError, in the try block and again in the except block
TaskEnds(t, status, res) ==
    LET job == task[t].job
    IN IF Present(job)
       THEN /\ job_status' = [job_status EXCEPT ![job] = [status |-> status, result |-> res]]
            /\ task' = [task EXCEPT ![t].pc = "done"]
       ELSE /\ job_status' = job_status
            /\ task' = [task EXCEPT ![t].pc = "crashed"]

\* the task starts on the event loop: output_dir.mkdir, then OCRPipeline() runs the
\* version probe with subprocess.run
TaskStart ==
    /\ loop = 0
    /\ \E t \in TaskIds :
          /\ task[t].pc = "queued"
          /\ disk' = Mkdir(disk, OutputDir(task[t].job))
          /\ task' = [task EXCEPT ![t].pc = "probing"]
          /\ loop' = t
          /\ actor' = task[t].job
    /\ UNCHANGED <<job_status, issued>>
    /\ UNCHANGED <<y_tolerance, sorterVars, mergeVars, statsVars, renderVars, pipeVars, organizeVars>>

\* the probe has ended: process() goes to the fallback on the event loop, or creates
\* mineru_temp and hands the engine run to the executor
TaskProbed ==
    /\ \E t \in TaskIds :
          /\ task[t].pc = "probing"
          /\ loop = t
          /\ actor' = task[t].job
          /\ \E p \in ProbeOutcomes :
                IF ProbeRaises(p)
                THEN /\ TaskEnds(t, "failed", NoResult)
                     /\ loop' = 0
                     /\ disk' = disk
                ELSE IF ~CheckMineruAvailable(p)
                THEN /\ task' = [task EXCEPT ![t].pc = "fallback"]
                     /\ UNCHANGED <<loop, disk, job_status>>
                ELSE /\ task' = [task EXCEPT ![t].pc = "engine"]
                     /\ loop' = 0
                     /\ disk' = Mkdir(Mkdir(disk, OutputDir(task[t].job)), TempDir(task[t].job))
                     /\ job_status' = job_status
    /\ UNCHANGED issued
    /\ UNCHANGED <<y_tolerance, sorterVars, mergeVars, statsVars, renderVars, pipeVars, organizeVars>>

\* what the engine left in mineru_temp, as _organize_output and _extract_stats take it:
\* no Markdown file (or no exit code 0), or the decoded Markdown, the images directory
\* and the manifest, parsed or not
PrimaryRun(engine, tree, file, imgs, mf) ==
    IF engine # "zero" \/ ~MdFound(tree)
    THEN [found |-> FALSE, content |-> <<>>, images |-> [exists |-> FALSE, files |-> {}],
          parsed |-> FALSE, json |-> NoManifest]
    ELSE [found |-> TRUE, content |-> ReadMarkdown(file).content, images |-> imgs,
          parsed |-> mf.file \notin {"invalid", "malformed"}, json |-> mf.json]

PrimaryRuns ==
    { PrimaryRun(engine, tree, file, imgs, mf) :
        engine \in EngineOutcomes, tree \in TempTrees, file \in MdFiles,
        imgs \in EngineImages, mf \in ManifestFiles }

\* a process() that removes mineru_temp at the end of every primary attempt
CleanTempAlways(f, job, failed) == RemoveTree(f, TempDir(job))

\* shutil.rmtree(temp_output) is in the except branch only
CleanTemp(f, job, failed) == IF failed THEN RemoveTree(f, TempDir(job)) ELSE f

\* the engine run has ended and the task is resumed: normalization and stats, then
\* 'completed'; or mineru_temp removed and the fallback started on the event loop
TaskEngineDone ==
    /\ loop = 0
    /\ \E t \in TaskIds :
          /\ task[t].pc = "engine"
          /\ actor' = task[t].job
          /\ \E run \in PrimaryRuns :
                LET job == task[t].job
                    written == run.found /\ Exists(disk, TempDir(job))
                    copied == IF run.images.exists
                              THEN Write(disk, ImagesDir(job),
                                         [Dir EXCEPT !.files = run.images.files])
                              ELSE disk
                    organized == IF written THEN Write(copied, OutputMd(job), File(run.content))
                                 ELSE disk
                IN IF written /\ run.parsed
                   THEN /\ disk' = CleanTemp(organized, job, FALSE)
                        /\ TaskEnds(t, "completed",
                                    PrimaryResult(run.content, run.json,
                                                  ImagesRecord(organized, job)))
                        /\ loop' = 0
                   ELSE /\ disk' = CleanTemp(organized, job, TRUE)
                        /\ task' = [task EXCEPT ![t].pc = "fallback"]
                        /\ loop' = t
                        /\ job_status' = job_status
    /\ UNCHANGED issued
    /\ UNCHANGED <<y_tolerance, sorterVars, mergeVars, statsVars, renderVars, pipeVars, organizeVars>>

\* FallbackPipeline has ended, whatever libraries are installed: output.md written and
\* 'completed', or 'failed'
TaskFallbackDone ==
    /\ \E t \in TaskIds :
          /\ task[t].pc = "fallback"
          /\ loop = t
          /\ actor' = task[t].job
          /\ \E fb \in FallbackOutcomes :
             \E text \in IF fb = "ok" THEN FallbackTexts ELSE {<<>>},
                pages \in IF fb = "ok" THEN PageCounts ELSE {0} :
                LET job == task[t].job
                    r == UseFallback(fb, text, pages, MdRecord(disk, job))
                    made == IF fb \in {"no_library", "mkdir_error"} THEN disk
                            ELSE Mkdir(disk, OutputDir(job))
                IN /\ disk' = IF fb \in {"ok", "write_error"}
                            THEN Write(made, OutputMd(job), File(r.md.content))
                            ELSE made
                   /\ TaskEnds(t, IF r.pc = "returned" THEN "completed" ELSE "failed",
                               r.result)
          /\ loop' = 0
    /\ UNCHANGED issued
    /\ UNCHANGED <<y_tolerance, sorterVars, mergeVars, statsVars, renderVars, pipeVars, organizeVars>>

----------------------------------------------------------------------------
(* OCRPipeline._organize_output *)

\* mineru_temp does not exist (the output directory was removed during the engine run)
EmptyTree == [auto |-> FALSE, stem_auto |-> FALSE, md |-> {}]

\* what _organize_output is called on: mineru_temp (does it exist, its directories and
\* where Markdown files lie), the Markdown file that rglob lists first, the images
\* directory and the manifest of the engine, and output.md and images as they are
OrganizeInputs ==
    { [temp |-> TRUE, tree |-> tree, file |-> file, images |-> imgs, manifest |-> mf] :
        tree \in TempTrees, file \in MdFiles, imgs \in EngineImages, mf \in ManifestFiles }
    \cup
    { [temp |-> FALSE, tree |-> EmptyTree, file |-> file, images |-> imgs, manifest |-> mf] :
        file \in {[decodable |-> {"latin-1"}, text |-> <<>>]},
        imgs \in {[exists |-> FALSE, files |-> {}]},
        mf \in {[file |-> "none", json |-> NoManifest]} }

\* possible_dirs, in the order of the list
PossibleDirs == <<"auto", "stem_auto", "root">>

\* possible_dir.exists()
DirExists(in, dir) ==
    CASE dir = "auto" -> in.tree.auto
      [] dir = "stem_auto" -> in.tree.stem_auto
      [] dir = "root" -> in.temp

\* a discovery that takes mineru_temp itself before its auto directories
SelectDirRootFirst(in) ==
    IF in.temp THEN "root" ELSE "none"

\* the loop over possible_dirs: the first that exists, "none" when the loop ends
\* without a break
SelectDir(in) ==
    IF \E i \in 1..Len(PossibleDirs) : DirExists(in, PossibleDirs[i])
    THEN PossibleDirs[CHOOSE i \in 1..Len(PossibleDirs) :
                         /\ DirExists(in, PossibleDirs[i])
                         /\ \A j \in 1..(i - 1) : ~DirExists(in, PossibleDirs[j])]
    ELSE "none"

\* dir.rglob("*.md"): the places below dir where Markdown files lie
Rglob(in, dir) == IF DirExists(in, dir) THEN in.tree.md \cap Under(dir) ELSE {}

\* a reader that takes latin-1 at once
TriedLatinOnly(file) == <<"latin-1">>

\* the nested try blocks: utf-8, on UnicodeDecodeError cp932, on UnicodeDecodeError
\* latin-1; the encodings that read_text was called with
TriedEncodings(file) ==
    IF "utf-8" \in file.decodable THEN <<"utf-8">>
    ELSE IF "cp932" \in file.decodable THEN <<"utf-8", "cp932">>
    ELSE <<"utf-8", "cp932", "latin-1">>

NoOutput ==
    [final_md |-> [exists |-> FALSE, content |-> <<>>, encoding |-> "none"],
     final_images |-> [exists |-> FALSE, files |-> {}],
     content_list |-> NoManifest]

\* _organize_output from the choice of the Markdown file on: copy the Markdown as
\* UTF-8, copy the images, load the manifest
OrganizeFrom(in, dir, looked, md) ==
    LET attempts == TriedEncodings(in.file)
        decoded == attempts[Len(attempts)] \in in.file.decodable
        written == [final_md |-> [exists |-> TRUE, content |-> in.file.text,
                                  encoding |-> "utf-8"],
                    final_images |-> CopyImages(in.images, NoOutput.final_images),
                    content_list |-> in.manifest.json]
    IN /\ auto_dir' = dir
       /\ searched' = looked
       /\ md_file' = md
       /\ tried' = attempts
       /\ IF ~decoded
          THEN /\ org_pc' = "raised"
               /\ org_error' = "decode_error"
               /\ org_output' = NoOutput
          ELSE IF in.manifest.file = "invalid"
          THEN /\ org_pc' = "raised"
               /\ org_error' = "invalid_json"
               /\ org_output' = [written EXCEPT !.content_list = NoManifest]
          ELSE /\ org_pc' = "returned"
               /\ org_error' = "none"
               /\ org_output' = written

\* _organize_output gives up before a Markdown file was chosen
OrganizeRaises(dir, looked, kind) ==
    /\ auto_dir' = dir
    /\ searched' = looked
    /\ md_file' = "none"
    /\ tried' = <<>>
    /\ org_pc' = "raised"
    /\ org_error' = kind
    /\ org_output' = NoOutput

\* _organize_output(pdf_path, temp_output, final_output)
OrganizeOutput ==
    /\ org_pc = "ready"
    /\ LET dir == SelectDir(org_input)
           looked == dir = "none"
           chosen == IF ~looked THEN dir
                     ELSE IF Rglob(org_input, "root") # {} THEN "root" ELSE "none"
       IN IF chosen = "none"
          THEN OrganizeRaises(chosen, looked, "no_output_dir")
          ELSE IF Rglob(org_input, chosen) = {}
          THEN OrganizeRaises(chosen, looked, "no_markdown")
          ELSE \E md \in Rglob(org_input, chosen) :
                  OrganizeFrom(org_input, chosen, looked, md)
    /\ UNCHANGED org_input
    /\ UNCHANGED <<y_tolerance, sorterVars, mergeVars, statsVars, renderVars, pipeVars, apiVars>>

----------------------------------------------------------------------------
(* Specifications *)

SorterIdle ==
    /\ elements = <<>>
    /\ sorted_by_y = <<>>
    /\ lines = <<>>
    /\ sorted_elements = <<>>
    /\ sort_pc = "ready"
    /\ rounds = 0

MergeIdle ==
    /\ text_blocks = <<>>
    /\ merged = <<>>
    /\ merge_pc = "ready"

StatsIdle ==
    /\ content_list = NoManifest
    /\ images_dir = [exists |-> FALSE, files |-> {}]
    /\ markdown_content = <<>>
    /\ stats = ZeroStats
    /\ pass_stats = <<>>
    /\ stats_pc = "ready"

RenderIdle ==
    /\ table_counter = 0
    /\ figure_counter = 0
    /\ formula_counter = 0
    /\ page_images = 1
    /\ image_files = <<>>
    /\ output_md = [exists |-> FALSE, content |-> <<>>]
    /\ gen_elements = <<>>
    /\ gen_saved = <<>>
    /\ gen_md = <<>>
    /\ gen_pc = "idle"
    /\ gen_calls = 0

PipelineIdle ==
    /\ probe = "ok"
    /\ constructed = FALSE
    /\ mineru_available = FALSE
    /\ pipe_pc = "idle"
    /\ temp_exists = FALSE
    /\ temp_mkdirs = 0
    /\ final_md = [exists |-> FALSE, content |-> <<>>]
    /\ final_images = [exists |-> FALSE, files |-> {}]
    /\ result = NoResult
    /\ error = NoError
    /\ mineru_runs = 0
    /\ fallback_calls = 0
    /\ process_calls = 0
    /\ probe_runs = 0
    /\ libraries = {}
    /\ readable = {}
    /\ fb_attempts = <<>>
    /\ primary_error = "none"
    /\ trace = <<>>

ApiIdle ==
    /\ job_status = [job \in Jobs |-> Absent]
    /\ disk = [p \in {} |-> Dir]
    /\ task = [t \in TaskIds |-> NoTask]
    /\ loop = 0
    /\ actor = "none"
    /\ issued = {}

OrganizeIdle ==
    /\ org_input = [temp |-> FALSE, tree |-> EmptyTree,
                    file |-> [decodable |-> {"latin-1"}, text |-> <<>>],
                    images |-> [exists |-> FALSE, files |-> {}],
                    manifest |-> [file |-> "none", json |-> NoManifest]]
    /\ org_pc = "idle"
    /\ auto_dir = "none"
    /\ searched = FALSE
    /\ md_file = "none"
    /\ tried = <<>>
    /\ org_output = NoOutput
    /\ org_error = "none"

SortInit ==
    /\ y_tolerance \in Tolerances
    /\ elements \in BoundedSeq(ElementPool, MaxLen)
    /\ sorted_by_y = <<>>
    /\ lines = <<>>
    /\ sorted_elements = <<>>
    /\ sort_pc = "ready"
    /\ rounds = 0
    /\ MergeIdle
    /\ StatsIdle
    /\ RenderIdle
    /\ PipelineIdle
    /\ ApiIdle
    /\ OrganizeIdle

SortNext == SortCall \/ Resubmit

SpecSort == SortInit /\ [][SortNext]_vars

MergeInit ==
    /\ y_tolerance \in Tolerances
    /\ text_blocks \in BoundedSeq(TextBlockPool, MaxBlocks)
    /\ merged = <<>>
    /\ merge_pc = "ready"
    /\ SorterIdle
    /\ StatsIdle
    /\ RenderIdle
    /\ PipelineIdle
    /\ ApiIdle
    /\ OrganizeIdle

MergeNext == MergeCall

SpecMerge == MergeInit /\ [][MergeNext]_vars

StatsInit ==
    /\ y_tolerance = DefaultTolerance
    /\ content_list \in Manifests
    /\ images_dir \in ImagesDirs
    /\ markdown_content \in Markdowns
    /\ stats = ZeroStats
    /\ pass_stats = <<>>
    /\ stats_pc = "ready"
    /\ SorterIdle
    /\ MergeIdle
    /\ RenderIdle
    /\ PipelineIdle
    /\ ApiIdle
    /\ OrganizeIdle

StatsNext == ExtractStatsCall

SpecStats == StatsInit /\ [][StatsNext]_vars

\* MarkdownGenerator.__init__: the counters start at 0
RenderInit ==
    /\ y_tolerance = DefaultTolerance
    /\ table_counter = 0
    /\ figure_counter = 0
    /\ formula_counter = 0
    /\ page_images \in PageImageCounts
    /\ image_files = <<>>
    /\ output_md = [exists |-> FALSE, content |-> <<>>]
    /\ gen_elements = <<>>
    /\ gen_saved = <<>>
    /\ gen_md = <<>>
    /\ gen_pc = "idle"
    /\ gen_calls = 0
    /\ SorterIdle
    /\ MergeIdle
    /\ StatsIdle
    /\ PipelineIdle
    /\ ApiIdle
    /\ OrganizeIdle

RenderNext == Generate

SpecRender == RenderInit /\ [][RenderNext]_vars

\* OCRPipeline.__init__ in a fresh output directory
PipelineInit ==
    /\ y_tolerance = DefaultTolerance
    /\ probe \in ProbeOutcomes
    /\ constructed = ~ProbeRaises(probe)
    /\ mineru_available = (~ProbeRaises(probe) /\ CheckMineruAvailable(probe))
    /\ pipe_pc = "idle"
    /\ temp_exists = FALSE
    /\ temp_mkdirs = 0
    /\ final_md = [exists |-> FALSE, content |-> <<>>]
    /\ final_images = [exists |-> FALSE, files |-> {}]
    /\ result = NoResult
    /\ error = NoError
    /\ mineru_runs = 0
    /\ fallback_calls = 0
    /\ process_calls = 0
    /\ probe_runs = 1
    /\ libraries \in SUBSET LibraryNames
    /\ readable = {}
    /\ fb_attempts = <<>>
    /\ primary_error = "none"
    /\ trace = <<>>
    /\ SorterIdle
    /\ MergeIdle
    /\ StatsIdle
    /\ RenderIdle
    /\ ApiIdle
    /\ OrganizeIdle

PipelineNext == ProcessCall \/ ProcessResume

SpecPipeline == PipelineInit /\ [][PipelineNext]_vars

\* the application after start-up: job_status = {}
ApiInit ==
    /\ y_tolerance = DefaultTolerance
    /\ job_status = [job \in Jobs |-> Absent]
    /\ disk = [p \in {} |-> Dir]
    /\ task = [t \in TaskIds |-> NoTask]
    /\ loop = 0
    /\ actor = "none"
    /\ issued = {}
    /\ SorterIdle
    /\ MergeIdle
    /\ StatsIdle
    /\ RenderIdle
    /\ PipelineIdle
    /\ OrganizeIdle

ApiNext ==
    \/ UploadPdf
    \/ ProcessPdf
    \/ GetStatus
    \/ DownloadZip
    \/ CleanupJob
    \/ TaskStart
    \/ TaskProbed
    \/ TaskEngineDone
    \/ TaskFallbackDone

SpecApi == ApiInit /\ [][ApiNext]_vars

\* _organize_output is called once the engine has exited with code 0
OrganizeInit ==
    /\ y_tolerance = DefaultTolerance
    /\ org_input \in OrganizeInputs
    /\ org_pc = "ready"
    /\ auto_dir = "none"
    /\ searched = FALSE
    /\ md_file = "none"
    /\ tried = <<>>
    /\ org_output = NoOutput
    /\ org_error = "none"
    /\ SorterIdle
    /\ MergeIdle
    /\ StatsIdle
    /\ RenderIdle
    /\ PipelineIdle
    /\ ApiIdle

OrganizeNext == OrganizeOutput

SpecOrganize == OrganizeInit /\ [][OrganizeNext]_vars

----------------------------------------------------------------------------
(* Claims about ContentSorter.sort_reading_order, checked under SpecSort *)

\* position in the y-sorted list of the first element of line k
LineStart(ls, k) == 1 + SumLen(SubSeq(ls, 1, k - 1))

\* the line that holds position i of the y-sorted list
LineOf(ls, i) ==
    CHOOSE k \in 1..Len(ls) : LineStart(ls, k) <= i /\ i < LineStart(ls, k) + Len(ls[k])

\* the part of the output that comes from line k
OutputOfLine(k) ==
    SubSeq(sorted_elements, LineStart(lines, k), LineStart(lines, k) + Len(lines[k]) - 1)

AscendingX(s) == \A i \in 1..(Len(s) - 1) : X1(s[i]) <= X1(s[i + 1])

LinesAscendingX ==
    \A k \in 1..Len(lines) :
        /\ AscendingX(OutputOfLine(k))
        /\ SeqToBag(OutputOfLine(k)) = SeqToBag(lines[k])

\* C1: the list returned by sort_reading_order is a permutation of its argument:
\* the same length and the same elements, each the same number of times.
C1_Permutation ==
    sort_pc = "sorted" =>
        /\ Len(sorted_elements) = Len(elements)
        /\ SeqToBag(sorted_elements) = SeqToBag(elements)

C1_Witness ==
    /\ sort_pc = "sorted"
    /\ Len(elements) = 3
    /\ elements[1] = elements[3]
    /\ sorted_elements # elements

\* C2: sorting the output of sort_reading_order again returns the same sequence,
\* also when elements share y1 and x1.
C2_Idempotent ==
    (sort_pc = "sorted" /\ rounds >= 1) => sorted_elements = elements

C2_Witness ==
    /\ sort_pc = "sorted"
    /\ rounds >= 1
    /\ Len(elements) = 3
    /\ \E i, j \in 1..Len(elements) :
          /\ i < j
          /\ elements[i] # elements[j]
          /\ X1(elements[i]) = X1(elements[j])
          /\ Y1(elements[i]) = Y1(elements[j])

\* C3 as stated: two elements consecutive in the y-sorted list whose y1 differ by at
\* most the tolerance are in the same line, and each line is ordered by ascending x1.
C3_ConsecutiveWithinTolerance ==
    sort_pc = "sorted" =>
        /\ \A i \in 1..(Len(sorted_by_y) - 1) :
              Abs(Y1(sorted_by_y[i + 1]) - Y1(sorted_by_y[i])) <= y_tolerance
                  => LineOf(lines, i) = LineOf(lines, i + 1)
        /\ LinesAscendingX

\* C3 amended: two elements consecutive in the y-sorted list are in the same line
\* exactly when the later one's y1 differs by at most the tolerance from the y1 of
\* the first element of the earlier one's line (the anchor); each line is ordered by
\* ascending x1.
C3_AnchorGrouping ==
    sort_pc = "sorted" =>
        /\ \A i \in 1..(Len(sorted_by_y) - 1) :
              (Abs(Y1(sorted_by_y[i + 1]) - Y1(lines[LineOf(lines, i)][1])) <= y_tolerance)
                  <=> (LineOf(lines, i) = LineOf(lines, i + 1))
        /\ LinesAscendingX

\* a pair within the tolerance of each other that the anchor rule puts in two lines
C3_Witness ==
    /\ sort_pc = "sorted"
    /\ \E i \in 1..(Len(sorted_by_y) - 1) :
          /\ Abs(Y1(sorted_by_y[i + 1]) - Y1(sorted_by_y[i])) <= y_tolerance
          /\ LineOf(lines, i) # LineOf(lines, i + 1)
    /\ \E k \in 1..Len(lines) : Len(lines[k]) >= 2 /\ OutputOfLine(k) # lines[k]

\* C24: in every line of _group_by_lines each element's y1 is within the tolerance of
\* the y1 of the line's first element (the anchor), the first element of each following
\* line is more than the tolerance away from the anchor of the line before it, and the
\* lines concatenated are the y-sorted input.
C24_LinesAroundAnchor ==
    sort_pc = "sorted" =>
        /\ \A k \in 1..Len(lines) :
              /\ lines[k] # <<>>
              /\ \A i \in 1..Len(lines[k]) :
                    Abs(Y1(lines[k][i]) - Y1(lines[k][1])) <= y_tolerance
        /\ \A k \in 1..(Len(lines) - 1) :
              Abs(Y1(lines[k + 1][1]) - Y1(lines[k][1])) > y_tolerance
        /\ Flatten(lines) = sorted_by_y

\* three elements in two lines: the first line holds two elements of different y1, the
\* second line starts within the tolerance of the element before it
C24_Witness ==
    /\ sort_pc = "sorted"
    /\ Len(sorted_by_y) = 3
    /\ Len(lines) = 2
    /\ Len(lines[1]) = 2
    /\ Y1(lines[1][1]) # Y1(lines[1][2])
    /\ Abs(Y1(lines[2][1]) - Y1(lines[1][2])) <= y_tolerance


IsScenario ==
    /\ y_tolerance = DefaultTolerance
    /\ Len(elements) = 3
    /\ {elements[i] : i \in 1..3} = {Title, TextLeft, TextRight}

\* C4 as stated: the three elements of the scenario come out as
\* [title, text at x1=0, text at x1=110] and share one line band.
C4_ScenarioOneBand ==
    (sort_pc = "sorted" /\ IsScenario) =>
        /\ sorted_elements = <<Title, TextLeft, TextRight>>
        /\ Len(lines) = 1

\* C4 amended: they come out as [title, text at x1=0, text at x1=110] in two line
\* bands, the title alone (25 - 0 exceeds the tolerance 20) and the two texts.
C4_ScenarioTwoBands ==
    (sort_pc = "sorted" /\ IsScenario) =>
        /\ sorted_elements = <<Title, TextLeft, TextRight>>
        /\ Len(lines) = 2
        /\ lines[1] = <<Title>>
        /\ {lines[2][i] : i \in 1..Len(lines[2])} = {TextLeft, TextRight}

C4_Witness ==
    /\ sort_pc = "sorted"
    /\ IsScenario
    /\ elements = <<TextRight, TextLeft, Title>>

----------------------------------------------------------------------------
(* Claims about ContentSorter.merge_text_blocks, checked under SpecMerge *)

Contents(paragraphs) == [i \in 1..Len(paragraphs) |-> paragraphs[i].content]

InputTexts(blocks) == [i \in 1..Len(blocks) |-> blocks[i].text]

\* every merge turns two paragraphs into one
MergesPerformed == Len(text_blocks) - Len(merged)

\* C5: for a non-empty list of blocks the contents returned by merge_text_blocks hold
\* at most the characters of the input texts plus one separator per merge.
C5_MergeLength ==
    (merge_pc = "merged" /\ text_blocks # <<>>) =>
        SumLen(Contents(merged)) <= SumLen(InputTexts(text_blocks)) + MergesPerformed

C5_Witness ==
    /\ merge_pc = "merged"
    /\ Len(text_blocks) = 3
    /\ Len(merged) = 2
    /\ SumLen(Contents(merged)) = SumLen(InputTexts(text_blocks)) + 1

\* the adjacent pairs of the input that are further apart than the tolerance
Breaks ==
    { i \in 1..(Len(text_blocks) - 1) :
        Abs(text_blocks[i + 1].bbox[2] - text_blocks[i].bbox[2]) > y_tolerance }

RunStarts == {1} \cup {i + 1 : i \in Breaks}

\* the k-th maximal run of blocks without such a pair: its first and last position
RunStart(k) == CHOOSE s \in RunStarts : Cardinality({x \in RunStarts : x < s}) = k - 1

RunEnd(k) == IF k = Cardinality(RunStarts) THEN Len(text_blocks) ELSE RunStart(k + 1) - 1

Run(k) == SubSeq(text_blocks, RunStart(k), RunEnd(k))

RECURSIVE SpaceJoined(_)
SpaceJoined(blocks) ==
    IF Len(blocks) = 1 THEN blocks[1].text
    ELSE SpaceJoined(SubSeq(blocks, 1, Len(blocks) - 1)) \o <<" ">> \o blocks[Len(blocks)].text

Least(S) == CHOOSE m \in S : \A x \in S : m <= x

Greatest(S) == CHOOSE m \in S : \A x \in S : x <= m

UnionBbox(blocks) ==
    << Least({blocks[i].bbox[1] : i \in 1..Len(blocks)}),
       Least({blocks[i].bbox[2] : i \in 1..Len(blocks)}),
       Greatest({blocks[i].bbox[3] : i \in 1..Len(blocks)}),
       Greatest({blocks[i].bbox[4] : i \in 1..Len(blocks)}) >>

\* C25: merge_text_blocks splits a non-empty input into the maximal runs of blocks
\* whose adjacent y1 are within the tolerance: one paragraph more than there are
\* adjacent pairs further apart, each paragraph the texts of its run joined by single
\* spaces in input order, with the union of the run's bboxes.
C25_ParagraphsAreRuns ==
    (merge_pc = "merged" /\ text_blocks # <<>>) =>
        /\ Len(merged) = 1 + Cardinality(Breaks)
        /\ \A k \in 1..Len(merged) :
              /\ merged[k].content = SpaceJoined(Run(k))
              /\ merged[k].bbox = UnionBbox(Run(k))

\* three blocks in two paragraphs; the first paragraph's bbox is neither block's own
C25_Witness ==
    /\ merge_pc = "merged"
    /\ Len(text_blocks) = 3
    /\ Len(merged) = 2
    /\ RunEnd(1) = 2
    /\ merged[1].bbox \notin {text_blocks[1].bbox, text_blocks[2].bbox}
    /\ text_blocks[2].text # <<>>

----------------------------------------------------------------------------
(* Claims about OCRPipeline._extract_stats, checked under SpecStats *)

CountedFields == {"total_pages", "tables", "figures", "formulas"}

\* C6: total_pages, tables, figures and formulas never go down from one pass of
\* _extract_stats to a later one.
C6_PassesMonotone ==
    stats_pc = "done" =>
        \A i, j \in 1..Len(pass_stats) : \A f \in CountedFields :
            i <= j => pass_stats[i][f] <= pass_stats[j][f]

\* the manifest counted more figures, tables and formulas than the document shows
C6_Witness ==
    /\ stats_pc = "done"
    /\ markdown_content # <<>>
    /\ pass_stats[2].figures > MdImages(markdown_content)
    /\ pass_stats[2].tables > MdTables(markdown_content)
    /\ pass_stats[2].formulas > MdFormulas(markdown_content)
    /\ stats.figures = pass_stats[2].figures
    /\ stats.total_pages = pass_stats[2].total_pages

ManifestUsable == content_list.kind = "list" /\ content_list.pages # <<>>

ImageFilesOnDisk ==
    IF images_dir.exists
    THEN Cardinality({f \in images_dir.files : f.ext \in {"png", "jpg", "jpeg"}})
    ELSE 0

\* C7: without a manifest the final figure count is the larger of the number of
\* image files in the images directory and the number of image references in the
\* document.
C7_FiguresWithoutManifest ==
    (stats_pc = "done" /\ ~ManifestUsable) =>
        stats.figures = Max(ImageFilesOnDisk, MdImages(markdown_content))

\* three references, one image file on disk: figures = 3
C7_Witness ==
    /\ stats_pc = "done"
    /\ ~ManifestUsable
    /\ MdImages(markdown_content) = 3
    /\ ImageFilesOnDisk = 1
    /\ stats.figures = 3

----------------------------------------------------------------------------
(* Claims about MarkdownGenerator.generate, checked under SpecRender *)

CountType(elems, type) == Cardinality({i \in 1..Len(elems) : elems[i].type = type})

\* the names saved during the last call that start with prefix, in order
SavedWith(prefix) ==
    LET HasPrefix(name) == name[1] = prefix
    IN SelectSeq(gen_saved, HasPrefix)

\* the image references of the last call whose label starts with word, in order
ReferencesOf(word) ==
    LET IsRef(line) == line.kind = "image" /\ line.text[1] = word
    IN SelectSeq(gen_md, IsRef)

NumberedFromOne(prefix) ==
    SavedWith(prefix) = [n \in 1..Len(SavedWith(prefix)) |-> FileName(prefix, n)]

\* every reference to a table image follows the caption with the same number
TableReferencesCaptioned ==
    \A i \in 1..Len(gen_md) :
        (gen_md[i].kind = "image" /\ gen_md[i].text[1] = "Table") =>
            /\ i > 1
            /\ gen_md[i - 1] = MdLine("bold", gen_md[i].text, <<>>)

\* C8: a generate() call on k table elements writes exactly the k files
\* table_1.png .. table_k.png and emits exactly k table image references, the n-th
\* to table_n.png right after the bold caption "Table n"; no table becomes text.
C8_TablesAsImages ==
    gen_pc = "returned" =>
        LET k == CountType(gen_elements, "table")
        IN /\ SavedWith("table") = [n \in 1..k |-> FileName("table", n)]
           /\ ReferencesOf("Table")
                = [n \in 1..k |-> MdLine("image", Label("Table", n),
                                         RelativePath(FileName("table", n)))]
           /\ TableReferencesCaptioned
           /\ Cardinality({i \in 1..Len(gen_md) : gen_md[i].kind = "plain"})
                = CountType(gen_elements, "text")

\* a second call on the same instance whose only table became table_2.png
C8_Witness ==
    /\ gen_pc = "returned"
    /\ gen_calls = 2
    /\ CountType(gen_elements, "table") = 1
    /\ SavedWith("table") = <<FileName("table", 2)>>
    /\ TableReferencesCaptioned

\* C9: every generate() call numbers its tables, its figures and its image formulas
\* from 1, each kind on its own, whatever earlier calls on the instance rendered.
C9_CountersResetPerCall ==
    gen_pc = "returned" =>
        /\ NumberedFromOne("table")
        /\ NumberedFromOne("figure")
        /\ NumberedFromOne("formula")
        /\ Len(SavedWith("table")) = CountType(gen_elements, "table")
        /\ Len(SavedWith("figure")) = CountType(gen_elements, "figure")

\* a second call that rendered a figure and a table: both numbered on from the first call
C9_Witness ==
    /\ gen_pc = "returned"
    /\ gen_calls = 2
    /\ table_counter = 2
    /\ figure_counter = 3
    /\ SavedWith("figure") = <<FileName("figure", 3)>>
    /\ SavedWith("table") = <<FileName("table", 2)>>

----------------------------------------------------------------------------
(* Claims about OCRPipeline.process, checked under SpecPipeline *)

ProbeFailed == probe \in {"nonzero", "missing", "timeout"}

\* C10: when the version probe ended with a non-zero exit code, a missing executable
\* or a timeout, every process() call goes straight to the fallback: _run_mineru_async
\* is never run, mineru_temp is never created, and a returned result is the fallback's.
C10_UnavailableGoesToFallback ==
    ProbeFailed =>
        /\ mineru_runs = 0
        /\ temp_mkdirs = 0
        /\ ~temp_exists
        /\ pipe_pc # "mineru"
        /\ fallback_calls = process_calls
        /\ (pipe_pc = "returned" =>
               /\ "fallback_used" \in DOMAIN result
               /\ "mineru_success" \notin DOMAIN result)

\* two process() calls after a probe that exited non-zero, the second one returned
C10_Witness ==
    /\ probe = "nonzero"
    /\ process_calls = 2
    /\ fallback_calls = 2
    /\ pipe_pc = "returned"
    /\ result = FallbackResult(<<"a", " ", "b", "\n">>, 1)

CallEnded == pipe_pc \in {"returned", "raised"}

\* the except branch of process() was entered during the last call
PrimaryAttemptFailed == primary_error # "none"

Positions(name) == {i \in 1..Len(trace) : trace[i].stage = name}

MarkedFallback ==
    /\ "fallback_used" \in DOMAIN result
    /\ result.fallback_used
    /\ "mineru_success" \notin DOMAIN result

\* C11: when the primary attempt failed inside process(), mineru_temp is removed
\* before the fallback starts, it does not exist when the call returns or raises,
\* and a returned result is marked as the fallback's.
C11_TempRemovedOnFailure ==
    (CallEnded /\ PrimaryAttemptFailed) =>
        /\ ~temp_exists
        /\ \A i \in Positions("fallback") : i > 1 /\ trace[i - 1] = Stage("cleanup", TRUE)
        /\ (pipe_pc = "returned" => MarkedFallback)

\* the engine timed out, rmtree raised: process() raised and mineru_temp is still there
C11_Witness ==
    /\ pipe_pc = "raised"
    /\ primary_error = "engine_timeout"
    /\ error = Error("rmtree", "none")
    /\ temp_exists
    /\ Positions("fallback") = {}

\* C12: an exception leaves process() only after the fallback was attempted and
\* failed; every failure of the primary tier, creating or cleaning mineru_temp
\* included, is answered by running the fallback.
C12_RaisesOnlyAfterFallback ==
    pipe_pc = "raised" =>
        /\ trace # <<>>
        /\ trace[Len(trace)] = Stage("fallback", FALSE)
        /\ error.kind = "all_failed"

\* mkdir of mineru_temp failed: process() raised and no fallback ran
C12_Witness ==
    /\ pipe_pc = "raised"
    /\ error = Error("mkdir", "none")
    /\ trace = <<Stage("mkdir", FALSE)>>
    /\ fallback_calls = 0

\* what str(e) of the raised exception holds
MessageParts(err) == {err.kind, err.cause}

\* C13: when process() raises after a failed primary attempt and a failed fallback,
\* the error carries the primary error's message and the fallback error's message.
C13_ErrorCarriesBothMessages ==
    (pipe_pc = "raised" /\ PrimaryAttemptFailed /\ error.kind = "all_failed") =>
        /\ primary_error \in MessageParts(error)
        /\ error.cause \in FallbackOutcomes \ {"ok"}

\* engine timeout, then the extraction failed: the error names the extraction only
C13_Witness ==
    /\ pipe_pc = "raised"
    /\ primary_error = "engine_timeout"
    /\ error = Error("all_failed", "extract_error")
    /\ trace[Len(trace)] = Stage("fallback", FALSE)

Attempted == {fb_attempts[i] : i \in 1..Len(fb_attempts)}

\* C14: when an extraction strategy of the fallback raises, the next one is tried;
\* the fallback fails on extraction only when every strategy it has was called and
\* failed.
C14_EveryStrategyAttempted ==
    (pipe_pc = "raised" /\ error = Error("all_failed", "extract_error")) =>
        /\ Attempted = libraries
        /\ Attempted \cap readable = {}

\* both libraries imported, PyPDF2 raised, pypdf could have read the PDF and was not called
C14_Witness ==
    /\ pipe_pc = "raised"
    /\ error = Error("all_failed", "extract_error")
    /\ libraries = {"PyPDF2", "pypdf"}
    /\ readable = {"pypdf"}
    /\ fb_attempts = <<"PyPDF2">>

StatsFields ==
    {"total_pages", "total_elements", "tables", "figures", "formulas", "word_count",
     "char_count"}

\* C16: the stats of every result process() returns have the seven fields
\* total_pages, total_elements, tables, figures, formulas, word_count, char_count,
\* each a non-negative integer.
C16_StatsHaveSevenFields ==
    pipe_pc = "returned" =>
        /\ StatsFields \subseteq DOMAIN result.stats
        /\ \A f \in StatsFields : result.stats[f] \in Nat

\* a result of the primary path: no word_count, no char_count
C16_Witness ==
    /\ pipe_pc = "returned"
    /\ "mineru_success" \in DOMAIN result
    /\ DOMAIN result.stats =
          {"total_pages", "total_elements", "tables", "figures", "formulas", "total_images"}

PrimaryStages == {"mineru", "organize", "stats"}

\* C19: in one process() call the engine runs at most once, normalization follows
\* only an engine run that exited 0, stats extraction follows only a normalization
\* that succeeded, the fallback runs at most once and only when MinerU is unavailable
\* or a primary stage failed, and nothing runs after the fallback.
C19_StagesOrdered ==
    /\ Cardinality(Positions("mineru")) <= 1
    /\ (pipe_pc = "mineru" => Positions("mineru") = {})
    /\ mineru_runs <= process_calls
    /\ fallback_calls <= process_calls
    /\ \A i \in Positions("organize") : i > 1 /\ trace[i - 1] = Stage("mineru", TRUE)
    /\ \A i \in Positions("stats") : i > 1 /\ trace[i - 1] = Stage("organize", TRUE)
    /\ Cardinality(Positions("fallback")) <= 1
    /\ \A i \in Positions("fallback") :
          /\ i = Len(trace)
          /\ \/ ~mineru_available
             \/ \E j \in 1..(i - 1) : trace[j].stage \in PrimaryStages /\ ~trace[j].ok
    /\ \A i \in 1..Len(trace) :
          (trace[i].stage \in PrimaryStages /\ ~trace[i].ok) =>
              \A j \in (i + 1)..Len(trace) : trace[j].stage \notin PrimaryStages

\* a call that went through every stage: stats extraction failed, then the fallback
C19_Witness ==
    /\ pipe_pc = "returned"
    /\ trace = << Stage("mkdir", TRUE), Stage("mineru", TRUE), Stage("organize", TRUE),
                  Stage("stats", FALSE), Stage("cleanup", TRUE), Stage("fallback", TRUE) >>

\* C20: mineru_available is decided by the probe in __init__ and no process() call
\* changes it or runs the probe again, whether or not its primary attempt failed.
C20_AvailabilityFixed ==
    [][mineru_available' = mineru_available /\ probe_runs' = probe_runs]_vars

\* the second call's engine run timed out as well; MinerU still counts as available
C20_Witness ==
    /\ process_calls = 2
    /\ CallEnded
    /\ primary_error = "engine_timeout"
    /\ mineru_runs = 2
    /\ mineru_available
    /\ probe_runs = 1

\* C29: the markdown of every result that process() returns is the content of
\* output.md at that time, also when the primary attempt had written output.md before
\* it failed and the fallback wrote it again.
C29_MarkdownIsOutputMd ==
    pipe_pc = "returned" =>
        /\ final_md.exists
        /\ result.markdown = final_md.content

\* the manifest could not be parsed after output.md was written; the fallback returned
C29_Witness ==
    /\ pipe_pc = "returned"
    /\ primary_error = "invalid_json"
    /\ Positions("fallback") # {}
    /\ result.markdown = final_md.content
    /\ final_images.exists

FallbackFlags == {"fallback", "fallback_used"}

\* C30: a returned result names exactly one tier: mineru_success and no fallback flag
\* when the primary path produced it, fallback_used and fallback and no mineru_success
\* when the fallback produced it.
C30_ExactlyOneTier ==
    pipe_pc = "returned" =>
        IF Positions("fallback") = {}
        THEN /\ "mineru_success" \in DOMAIN result
             /\ result.mineru_success
             /\ FallbackFlags \cap DOMAIN result = {}
        ELSE /\ FallbackFlags \subseteq DOMAIN result
             /\ result.fallback
             /\ result.fallback_used
             /\ "mineru_success" \notin DOMAIN result

\* one pipeline returned a primary result in its first call and a fallback result,
\* after the engine left no Markdown, in its second
C30_Witness ==
    /\ pipe_pc = "returned"
    /\ process_calls = 2
    /\ mineru_runs = 2
    /\ fallback_calls = 1
    /\ primary_error = "no_markdown"
    /\ "fallback_used" \in DOMAIN result

----------------------------------------------------------------------------
(* Claims about OCRPipeline._organize_output, checked under SpecOrganize *)

Called == org_pc \in {"returned", "raised"}

\* C21: _organize_output selects the first directory that exists of <temp>/auto,
\* <temp>/<pdf-stem>/auto, <temp>; only when none of the three exists does it search
\* the temp tree for any Markdown file; it then uses a Markdown file found under the
\* selected directory.
C21_FirstExistingDirectory ==
    Called =>
        /\ org_input.tree.auto => auto_dir = "auto"
        /\ (~org_input.tree.auto /\ org_input.tree.stem_auto) => auto_dir = "stem_auto"
        /\ (~org_input.tree.auto /\ ~org_input.tree.stem_auto /\ org_input.temp)
               => auto_dir = "root"
        /\ searched <=> (~org_input.tree.auto /\ ~org_input.tree.stem_auto /\ ~org_input.temp)
        /\ md_file # "none" => md_file \in org_input.tree.md \cap Under(auto_dir)

\* <temp>/auto is missing, <temp>/<pdf-stem>/auto is selected before <temp>, and the
\* Markdown file in it is used although <temp> holds one as well
C21_Witness ==
    /\ org_pc = "returned"
    /\ ~org_input.tree.auto
    /\ org_input.tree.md = {"stem_auto", "root"}
    /\ auto_dir = "stem_auto"
    /\ md_file = "stem_auto"

MissingOutput == {"no_output_dir", "no_markdown"}

\* C22: after exit code 0, _organize_output fails for missing output only if no
\* Markdown file lies anywhere under mineru_temp; a Markdown file somewhere under it
\* is discovered whatever candidate directories exist.
C22_FoundWheneverPresent ==
    (org_pc = "raised" /\ org_error \in MissingOutput) => org_input.tree.md = {}

\* <temp>/auto exists and is empty, the Markdown file lies in <temp>/<pdf-stem>/auto:
\* _organize_output raises
C22_Witness ==
    /\ org_pc = "raised"
    /\ org_error = "no_markdown"
    /\ auto_dir = "auto"
    /\ org_input.tree.md = {"stem_auto"}

\* C23: the Markdown file is read as UTF-8, then cp932, then latin-1, the first
\* encoding that decodes it is used and none after it is tried, the decoded content is
\* written to output.md as UTF-8, and decoding never fails.
C23_EncodingOrder ==
    (Called /\ md_file # "none") =>
        /\ tried = SubSeq(Encodings, 1, Len(tried))
        /\ tried # <<>>
        /\ tried[Len(tried)] \in org_input.file.decodable
        /\ \A i \in 1..(Len(tried) - 1) : tried[i] \notin org_input.file.decodable
        /\ org_error # "decode_error"
        /\ org_output.final_md =
               [exists |-> TRUE, content |-> org_input.file.text, encoding |-> "utf-8"]

\* a file that is neither UTF-8 nor cp932: read with latin-1 at the third attempt
C23_Witness ==
    /\ org_pc = "returned"
    /\ org_input.file.decodable = {"latin-1"}
    /\ org_input.file.text # <<>>
    /\ tried = <<"utf-8", "cp932", "latin-1">>
    /\ org_output.final_md.content = org_input.file.text


----------------------------------------------------------------------------
(* api/v1/ocr.py: properties of the jobs *)

\* C15: whenever a job's status is 'completed', its outputs/<job_id>/output.md
\* exists and is non-empty, on the primary path and on the fallback path and in every
\* interleaving of upload, process, status and cleanup.
C15_CompletedHasOutput ==
    \A job \in Jobs :
        job_status[job].status = "completed" =>
            /\ Exists(disk, OutputMd(job))
            /\ disk[OutputMd(job)].content # <<>>

\* a job completed by the primary path whose output.md is the engine's empty Markdown
C15_Witness ==
    \E job \in Jobs :
        /\ job_status[job].status = "completed"
        /\ "mineru_success" \in DOMAIN job_status[job].result
        /\ Exists(disk, OutputMd(job))
        /\ disk[OutputMd(job)].content = <<>>

\* C17: while a conversion is in flight the event loop is never occupied by it: the
\* probe, the engine run and the fallback extraction run on a separate worker, so a
\* request for another job can always be served.
C17_LoopNeverHeld ==
    \A t \in TaskIds : task[t].pc \in InFlight => loop # t

\* a task holds the event loop in the fallback while another job waits to be processed
C17_Witness ==
    \E t \in TaskIds, job \in Jobs :
        /\ task[t].pc = "fallback"
        /\ loop = t
        /\ job # task[t].job
        /\ job_status[job].status = "uploaded"

\* the path p is created, written or deleted by the step
Touched(p) ==
    \/ Exists(disk, p) # Exists(disk', p)
    \/ Exists(disk, p) /\ Exists(disk', p) /\ disk[p] # disk'[p]

\* the job id in a path below uploads, outputs or downloads
Owner(p) == p[2]

\* C18: every file or directory a conversion task (or a request) of one job creates,
\* writes or deletes -- the upload, the output directory, mineru_temp, output.md, the
\* images, the ZIP -- carries that job's id, so the paths of two distinct jobs are
\* disjoint.
C18_JobsTouchOwnPaths ==
    [][\A p \in (DOMAIN disk) \cup (DOMAIN disk') : Touched(p) => Owner(p) = actor']_vars

\* two tasks of distinct jobs in flight together, one with its mineru_temp and the other
\* with its output.md on disk
C18_Witness ==
    \E t \in TaskIds, u \in TaskIds :
        /\ task[t].job # task[u].job
        /\ task[t].pc = "engine"
        /\ task[u].pc \in InFlight
        /\ Exists(disk, TempDir(task[t].job))
        /\ Exists(disk, OutputMd(task[u].job))

\* C26: every conversion task that was started ends by recording 'completed' or
\* 'failed' for its job and no exception leaves process_pdf_task, also when the job is
\* cleaned up while its conversion is suspended.
C26_TaskRecordsStatus ==
    \A t \in TaskIds :
        /\ task[t].pc # "crashed"
        /\ (task[t].pc = "done" /\ Present(task[t].job)) =>
               job_status[task[t].job].status \in {"processing", "completed", "failed"}

\* the job was cleaned up during the engine run; the task's status update raised KeyError
C26_Witness ==
    \E t \in TaskIds :
        /\ task[t].pc = "crashed"
        /\ ~Present(task[t].job)
        /\ ~Exists(disk, UploadPath(task[t].job))

\* C27: at most one conversion task is in flight per job id: a POST /process for a job
\* that is being processed starts no second conversion on the same output directory.
C27_OneTaskPerJob ==
    \A t \in TaskIds, u \in TaskIds :
        (t # u /\ task[t].pc \in InFlight /\ task[u].pc \in InFlight)
            => task[t].job # task[u].job

\* two tasks of one job: the first has removed mineru_temp and runs the fallback while
\* the engine of the second is still writing there
C27_Witness ==
    \E t \in TaskIds, u \in TaskIds :
        /\ t # u
        /\ task[t].job = task[u].job
        /\ task[t].pc = "fallback"
        /\ task[u].pc = "engine"
        /\ ~Exists(disk, TempDir(task[u].job))

====
